---- MODULE Spec2Model ----
(***************************************************************************)
(* TimeAdapt (scripts/timeadapt.py, src/add.mutations.py): the genome map  *)
(* builders, the per-site per-sample genotype caller and the sequencing    *)
(* simulator, as state machines.                                           *)
(*                                                                         *)
(* Conventions                                                             *)
(*  - a genotype call is a pair <<a, b>> over {-1, 0, 1};                  *)
(*  - a boolean argument carries its run-time representation: the Python   *)
(*    singletons ("PyTrue", "PyFalse") or a numpy.bool_ scalar ("NpTrue",  *)
(*    "NpFalse"), which is what indexing a pandas boolean column gives;    *)
(*  - the sequencing error rate is given in halves (0, 1/2, 1), so that    *)
(*    the degenerate binomials p = 0 and p = 1 are part of the model;      *)
(*  - math.log(2) is the symbol Ln2.                                       *)
(***************************************************************************)
EXTENDS Integers, Sequences, FiniteSets, TLC

(***************************************************************************)
(* Bounds of the model.                                                    *)
(***************************************************************************)
\* largest read depth given to a direct call of snp_calling
MaxReads == 5
\* largest reads_th / score_th given to a direct call of snp_calling
MaxTh == 3
\* largest ratio_th given to a direct call of snp_calling
MaxRatio == 3
\* largest number of cells (sites times samples) of a genotype matrix
MaxCells == 2
\* largest variant position, in halves
MaxPosH == 2
\* largest depth np.random.poisson returns
MaxDepth == 10
\* largest number of rows of a genome table, largest chromosome index and
\* largest Position (or Length) in it
MaxRows == 4
MaxChr == 3
MaxPos == 2
\* largest number of loci of a genotype matrix given to distribution_roh or
\* single_sample_sumstats, largest position and largest chromosome end
\* given to distribution_roh
MaxLoci == 3
MaxRohPos == 12
MaxChrEnd == 120

(***************************************************************************)
(* Program constants.                                                      *)
(***************************************************************************)
\* snp_calling's default thresholds, the ones sequencing runs with
DefaultReadsTh == 8
DefaultScoreTh == 10
DefaultRatioTh == 3

(***************************************************************************)
(* Values.                                                                 *)
(***************************************************************************)
Flags == {"PyTrue", "PyFalse", "NpTrue", "NpFalse"}

\* the truth value of a flag (bool(x))
Truth(x) == x \in {"PyTrue", "NpTrue"}

\* Python's `x is False`: identity with the singleton False
IsFalse(x) == x = "PyFalse"

Missing == <<-1, -1>>

TrueGenotypes == {<<0, 0>>, <<0, 1>>, <<1, 0>>, <<1, 1>>}

\* error rates, in halves
ErrorRates == 0..2

\* sum(true_genotype)
DerivedCount(tg) == tg[1] + tg[2]

\* p_derived = derived_count/2*(1-e) + (1-derived_count/2)*e, in quarters
PDerived4(tg, eH) == DerivedCount(tg) * (2 - eH) + (2 - DerivedCount(tg)) * eH

\* the values st.binom.rvs(n, num/den) can return
BinomSupport(n, num, den) ==
  IF num = 0 THEN {0} ELSE IF num = den THEN {n} ELSE 0..n

\* (ratio_of_scores >= 1/ratio_th) & (ratio_of_scores <= ratio_th), the two
\* float quotients compared as the rationals they round from
InRatioBand(derived_reads, ancestral_reads, ratio_th) ==
  /\ derived_reads * ratio_th >= ancestral_reads
  /\ derived_reads <= ratio_th * ancestral_reads

\* the branch taken when f_num_reads >= score_th
ScoreCall_KeepDefault(derived_reads, ancestral_reads, ratio_th) ==
  IF derived_reads = 0 THEN <<0, 0>>
  ELSE IF ancestral_reads = 0 THEN <<1, 1>>
  ELSE IF InRatioBand(derived_reads, ancestral_reads, ratio_th) THEN <<0, 1>>
  ELSE <<1, 1>>
ScoreCall(derived_reads, ancestral_reads, ratio_th) ==
  IF derived_reads = 0 THEN <<0, 0>>
  ELSE IF ancestral_reads = 0 THEN <<1, 1>>
  ELSE IF InRatioBand(derived_reads, ancestral_reads, ratio_th) THEN <<0, 1>>
  ELSE IF derived_reads > ancestral_reads THEN <<1, 1>>
  ELSE <<0, 0>>

\* the damage rule: `dr is False and transversion is False`
DamageRule(dr, transversion) == IsFalse(dr) /\ IsFalse(transversion)

\* an outcome of one call: the call returned (or the exception raised) and the
\* draws taken from the random stream, in order
Outcome(raised, call, draws) == [raised |-> raised, call |-> call, draws |-> draws]

\* the low-coverage branch: one Bernoulli trial with p = derived_reads /
\* f_num_reads, copied to both chromosome copies; the division fails at
\* f_num_reads = 0 (ZeroDivisionError on Python ints, nan and a domain error
\* in binom.rvs on numpy ints)
LowCoverageOutcomes(f_num_reads, derived_reads) ==
  IF f_num_reads = 0
  THEN {Outcome(TRUE, Missing, <<[dist |-> "binom", value |-> derived_reads]>>)}
  ELSE {Outcome(FALSE, <<a, a>>,
                <<[dist |-> "binom", value |-> derived_reads],
                  [dist |-> "bernoulli", value |-> a]>>) :
          a \in BinomSupport(1, derived_reads, f_num_reads)}

\* timeadapt.snp_calling
snp_calling(true_genotype, f_num_reads, error_rate, reads_th, score_th, ratio_th, dr, transversion) ==
  IF DamageRule(dr, transversion)
  THEN {Outcome(FALSE, Missing, <<>>)}
  ELSE IF f_num_reads >= reads_th
  THEN UNION {
         IF f_num_reads >= score_th
         THEN {Outcome(FALSE,
                       ScoreCall(derived_reads, f_num_reads - derived_reads, ratio_th),
                       <<[dist |-> "binom", value |-> derived_reads]>>)}
         ELSE LowCoverageOutcomes(f_num_reads, derived_reads) :
         derived_reads \in BinomSupport(f_num_reads, PDerived4(true_genotype, error_rate), 4)}
  ELSE {Outcome(FALSE, Missing, <<>>)}

(***************************************************************************)
(* timeadapt.sequencing: values.                                           *)
(***************************************************************************)
\* round(variant.position), the position given in halves: Python rounds a
\* tie to the even integer
Round(posH) ==
  IF posH % 2 = 0 THEN posH \div 2
  ELSE IF ((posH - 1) \div 2) % 2 = 0 THEN (posH - 1) \div 2
  ELSE (posH + 1) \div 2

\* mean coverages: none, or some
CovValues == {0, 10}

\* the values np.random.poisson(lam) can return, up to MaxDepth; the depths
\* 1 .. reads_th - 2 are left out: like reads_th - 1 they are below every
\* threshold sequencing runs with
PoissonSupport(lam) == IF lam = 0 THEN {0} ELSE (DefaultReadsTh - 1)..MaxDepth

\* np.random.poisson(lam=cov, size=ssize): one depth per sample
DepthVectors(cov, ssize) ==
  {d \in [1..ssize -> 0..MaxDepth] : \A s \in 1..ssize : d[s] \in PoissonSupport(cov[s])}

\* np.random.random() < ttr / (ttr + 1): the truth values the comparison can take
TransitionDraws(ttr) == IF ttr = 0 THEN {FALSE} ELSE {TRUE, FALSE}

\* the variants the tree sequence can yield after a variant at lastH (in
\* halves) when `more` variants follow: a later position, two or three
\* alleles; the slice var_genotypes[i:(i + 2)] of a sample is an input of
\* the step that reads it
Variants(lastH, more) ==
  [position : (lastH + 1)..(MaxPosH - more), alleles : {2, 3}]

NoVariant == [position |-> -1, alleles |-> 0]

\* empty_genotype_array(n_loci, n_samples, ploidy=2, allele=-1)
empty_genotype_array(n_loci, n_samples) ==
  [l \in 1..n_loci |-> [s \in 1..n_samples |-> Missing]]

\* a draw from the stream, labelled with the site and the sample it is for
\* (phase 0: the depths, 1: the transition label, 2: the reads of a sample)
Draw(phase, site, sample, dist) ==
  [phase |-> phase, site |-> site, sample |-> sample, dist |-> dist]

NoDraw == Draw(-1, -1, -1, "none")

\* the position (in halves) of the last variant the tree sequence yielded
LastH(yielded) == IF Len(yielded) = 0 THEN -1 ELSE yielded[Len(yielded)].position

Last(s, default) == IF Len(s) = 0 THEN default ELSE s[Len(s)]

(***************************************************************************)
(* timeadapt.sequencing: the steps of one run, on the record of its locals.*)
(***************************************************************************)
SeqStart ==
  [pc |-> "entry", allocated |-> FALSE, geno_data |-> <<>>, positions |-> <<>>,
   locus |-> 0, i |-> 0, ts |-> <<>>, variant |-> NoVariant, num_reads |-> <<>>,
   transversion_snp |-> "PyTrue", cursor |-> 0, before |-> NoDraw, draws |-> <<>>]

\* lines 344-353: the length check, then the allocation
seq_entry_AllocateFirst(st, a) ==
  IF Len(a.cov) # a.ssize
  THEN [st EXCEPT !.pc = "raised", !.allocated = TRUE,
                  !.geno_data = empty_genotype_array(a.num_sites, a.ssize)]
  ELSE [st EXCEPT !.pc = "variants", !.allocated = TRUE,
                  !.geno_data = empty_genotype_array(a.num_sites, a.ssize),
                  !.positions = <<>>, !.locus = 0]
seq_entry(st, a) ==
  IF Len(a.cov) # a.ssize
  THEN [st EXCEPT !.pc = "raised"]
  ELSE [st EXCEPT !.pc = "variants", !.allocated = TRUE,
                  !.geno_data = empty_genotype_array(a.num_sites, a.ssize),
                  !.positions = <<>>, !.locus = 0]

\* lines 355-364: the next variant, its position, the depths, the label
seq_variant_DropMultiallelic(st, a, variant, depths, is_transition) ==
  [st EXCEPT !.pc = "samples",
             !.positions = IF variant.alleles = 2
                           THEN Append(st.positions, Round(variant.position))
                           ELSE st.positions,
             !.variant = variant,
             !.ts = Append(st.ts, variant),
             !.num_reads = depths,
             !.transversion_snp = IF is_transition THEN "PyFalse" ELSE "PyTrue",
             !.i = 0,
             !.cursor = st.cursor + a.ssize + 1,
             !.before = Last(st.draws, st.before),
             !.draws = [s \in 1..a.ssize |-> Draw(0, st.locus, s - 1, "poisson")]
                       \o <<Draw(1, st.locus, 0, "uniform")>>]
seq_variant(st, a, variant, depths, is_transition) ==
  [st EXCEPT !.pc = "samples",
             !.positions = Append(st.positions, Round(variant.position)),
             !.variant = variant,
             !.ts = Append(st.ts, variant),
             !.num_reads = depths,
             !.transversion_snp = IF is_transition THEN "PyFalse" ELSE "PyTrue",
             !.i = 0,
             !.cursor = st.cursor + a.ssize + 1,
             !.before = Last(st.draws, st.before),
             !.draws = [s \in 1..a.ssize |-> Draw(0, st.locus, s - 1, "poisson")]
                       \o <<Draw(1, st.locus, 0, "uniform")>>]

\* the calls snp_calling can return for sample i of the current variant
SampleOutcomes(st, a, true_genotype) ==
  IF st.variant.alleles = 2
  THEN snp_calling(true_genotype, st.num_reads[st.i + 1],
                   a.seq_error, DefaultReadsTh, DefaultScoreTh, DefaultRatioTh,
                   a.dr[st.i + 1], st.transversion_snp)
  ELSE {Outcome(FALSE, Missing, <<>>)}

\* lines 366-375: one sample of the current variant
seq_sample(st, a, o) ==
  [st EXCEPT !.pc = IF o.raised THEN "raised" ELSE "samples",
             !.geno_data = IF o.raised THEN st.geno_data
                           ELSE [st.geno_data EXCEPT ![st.locus + 1][st.i + 1] = o.call],
             !.i = st.i + 1,
             !.cursor = st.cursor + Len(o.draws),
             !.before = Last(st.draws, st.before),
             !.draws = [k \in 1..Len(o.draws) |->
                          Draw(2, st.locus, st.i, o.draws[k].dist)]]

\* line 376: the samples are done, on to the next locus
seq_end_variant(st) ==
  [st EXCEPT !.pc = "variants", !.locus = st.locus + 1,
             !.variant = NoVariant, !.num_reads = <<>>, !.i = 0]

\* line 378
seq_return(st) == [st EXCEPT !.pc = "returned"]

(***************************************************************************)
(* The genome maps: get_genome_map, get_recombination_map, make_rec_map.   *)
(* A table is a sequence of rows [Chromosome, Position, rate]; the second  *)
(* column is the one get_genome_map reads as Length. A recombination rate  *)
(* is opaque to the code: the rate of row k is <<"rate", k>>, math.log(2)  *)
(* is Ln2.                                                                 *)
(***************************************************************************)
Ln2 == <<"ln2", 0>>

Column(table, name) == [k \in 1..Len(table) |-> table[k][name]]

RECURSIVE SeqMax(_)
SeqMax(s) ==
  IF Len(s) = 1 THEN s[1]
  ELSE LET m == SeqMax(Tail(s)) IN IF s[1] >= m THEN s[1] ELSE m

RECURSIVE SeqSum(_)
SeqSum(s) == IF Len(s) = 0 THEN 0 ELSE s[1] + SeqSum(Tail(s))

\* np.cumsum / pd.Series.cumsum
CumSum(s) == [k \in 1..Len(s) |-> SeqSum(SubSeq(s, 1, k))]

\* np.where(np.diff(chromosomes) == 1)[0], from index k on (0-based)
RECURSIVE WhereDiffIsOne(_, _)
WhereDiffIsOne(chromosomes, k) ==
  IF k + 2 > Len(chromosomes) THEN <<>>
  ELSE (IF chromosomes[k + 2] - chromosomes[k + 1] = 1 THEN <<k>> ELSE <<>>)
       \o WhereDiffIsOne(chromosomes, k + 1)

\* list.insert(index, x), index >= 0 (0-based); past the end it appends
ListInsert(s, index, x) ==
  IF index >= Len(s) THEN Append(s, x)
  ELSE SubSeq(s, 1, index) \o <<x>> \o SubSeq(s, index + 1, Len(s))

InSeq(x, s) == \E k \in 1..Len(s) : s[k] = x

\* lines 171-174: add the length of the previous chromosomes to positions[i..]
RECURSIVE RescalePositions(_, _, _, _, _)
RescalePositions(positions, i, chromo, chr_ends_index, rescaling_values) ==
  IF i >= Len(positions) THEN positions
  ELSE RescalePositions(
         [positions EXCEPT ![i + 1] = positions[i + 1] + rescaling_values[chromo + 1]],
         i + 1,
         IF InSeq(i, chr_ends_index) THEN chromo + 1 ELSE chromo,
         chr_ends_index, rescaling_values)

MapResult(raised, nchr, rates, positions) ==
  [raised |-> raised, nchr |-> nchr, rates |-> rates, positions |-> positions]

MapError == MapResult(TRUE, 0, <<>>, <<>>)

\* lines 176-178: for chromo in range(0, nchr-1), from chromo on; reading
\* chr_ends_index[chromo] past its end is an IndexError
RECURSIVE InsertBreakpoints_NoShift(_, _, _, _, _)
InsertBreakpoints_NoShift(positions, rates, chromo, nchr, chr_ends_index) ==
  IF chromo >= nchr - 1 THEN MapResult(FALSE, nchr, rates, positions)
  ELSE IF chromo >= Len(chr_ends_index) THEN MapError
  ELSE InsertBreakpoints_NoShift(
         ListInsert(positions, chr_ends_index[chromo + 1] + 1,
                    positions[chr_ends_index[chromo + 1] + 1] + 1),
         ListInsert(rates, chr_ends_index[chromo + 1] + 1, Ln2),
         chromo + 1, nchr, chr_ends_index)
RECURSIVE InsertBreakpoints(_, _, _, _, _)
InsertBreakpoints(positions, rates, chromo, nchr, chr_ends_index) ==
  IF chromo >= nchr - 1 THEN MapResult(FALSE, nchr, rates, positions)
  ELSE IF chromo >= Len(chr_ends_index) THEN MapError
  ELSE InsertBreakpoints(
         ListInsert(positions, chr_ends_index[chromo + 1] + 1 + chromo,
                    positions[chr_ends_index[chromo + 1] + chromo + 1] + 1),
         ListInsert(rates, chr_ends_index[chromo + 1] + 1 + chromo, Ln2),
         chromo + 1, nchr, chr_ends_index)

\* timeadapt.get_recombination_map, on a table of at least one row
get_recombination_map(table) ==
  LET nchr == SeqMax(Column(table, "Chromosome"))
      chromosomes == Column(table, "Chromosome")
      rates == Column(table, "rate")
      positions == Column(table, "Position")
      chr_ends_index == Append(WhereDiffIsOne(chromosomes, 0), Len(chromosomes) - 1)
      chr_ends == [k \in 1..Len(chr_ends_index) |-> positions[chr_ends_index[k] + 1]]
      rescaling_values == <<0>> \o CumSum(chr_ends)
      rescaled == RescalePositions(positions, 0, 0, chr_ends_index, rescaling_values)
      broken == InsertBreakpoints(rescaled, rates, 0, nchr, chr_ends_index)
  IN  IF broken.raised THEN MapError
      ELSE MapResult(FALSE, nchr, broken.rates, <<0>> \o broken.positions)

\* timeadapt.get_genome_map, on a table of at least one row: nchr, rates, ends
get_genome_map(table) ==
  MapResult(FALSE, SeqMax(Column(table, "Chromosome")), Column(table, "rate"),
            CumSum(Column(table, "Position")))

\* lines 234-239: for i in range(nchr-1), from i on; c_ends[i] past the end
\* is an IndexError
RECURSIVE MakeRecMapLoop(_, _, _, _, _, _)
MakeRecMapLoop(i, nchr, c_rates, c_ends, pos, rat) ==
  IF i >= nchr - 1 THEN MapResult(FALSE, nchr, rat, pos)
  ELSE IF i >= Len(c_ends) \/ i >= Len(c_rates) THEN MapError
  ELSE MakeRecMapLoop(i + 1, nchr, c_rates, c_ends,
                      pos \o <<c_ends[i + 1], c_ends[i + 1] + 1>>,
                      rat \o <<c_rates[i + 1], Ln2>>)

\* c_ends[nchr-1] and c_rates[nchr-1]: a negative index counts from the end
PyIndexOk(s, index) == -Len(s) <= index /\ index < Len(s)
PyIndex(s, index) == IF index >= 0 THEN s[index + 1] ELSE s[Len(s) + index + 1]

\* timeadapt.make_rec_map
make_rec_map_BreakAfterLast(nchr, c_rates, c_ends) ==
  MakeRecMapLoop(0, nchr + 1, c_rates, c_ends, <<0>>, <<>>)
make_rec_map(nchr, c_rates, c_ends) ==
  LET looped == MakeRecMapLoop(0, nchr, c_rates, c_ends, <<0>>, <<>>)
  IN  IF looped.raised THEN MapError
      ELSE IF ~PyIndexOk(c_ends, nchr - 1) \/ ~PyIndexOk(c_rates, nchr - 1) THEN MapError
      ELSE MapResult(FALSE, nchr, Append(looped.rates, PyIndex(c_rates, nchr - 1)),
                     Append(looped.positions, PyIndex(c_ends, nchr - 1)))

(***************************************************************************)
(* timeadapt.roh and timeadapt.distribution_roh. A genotype matrix is a    *)
(* sequence of loci, each a sequence of calls, one a sample; the positions *)
(* come in a Python list, a tuple or a numpy array.                        *)
(***************************************************************************)
PosKinds == {"list", "tuple", "array"}

\* a > b on two Python lists (or tuples): the order of the first pair that
\* differs, and the longer one when one is a prefix of the other
RECURSIVE LexGreater(_, _)
LexGreater(a, b) ==
  IF Len(a) = 0 THEN FALSE
  ELSE IF Len(b) = 0 THEN TRUE
  ELSE IF a[1] # b[1] THEN a[1] > b[1]
  ELSE LexGreater(Tail(a), Tail(b))

\* pos[1:] and pos[:-1]
SliceFromOne(pos) == IF Len(pos) = 0 THEN <<>> ELSE Tail(pos)
SliceToLast(pos) == IF Len(pos) = 0 THEN <<>> ELSE SubSeq(pos, 1, Len(pos) - 1)

\* line 495: np.all(pos[1:] > pos[:-1]); on an array > is elementwise, on a
\* list or a tuple it is one comparison of the two slices
PositionsCheck(kind, pos) ==
  IF kind = "array"
  THEN \A k \in 1..(Len(pos) - 1) : pos[k + 1] > pos[k]
  ELSE LexGreater(SliceFromOne(pos), SliceToLast(pos))

\* gv.to_n_alt(fill=-1) of one call: the number of derived alleles, -1 when
\* an allele is missing
NAlt(call) ==
  IF call[1] < 0 \/ call[2] < 0 THEN -1
  ELSE (IF call[1] > 0 THEN 1 ELSE 0) + (IF call[2] > 0 THEN 1 ELSE 0)

\* np.where(gv.to_n_alt(fill=-1) == 1)[0], from locus k on (1-based)
RECURSIVE HetSites(_, _)
HetSites(gv, k) ==
  IF k > Len(gv) THEN <<>>
  ELSE (IF NAlt(gv[k]) = 1 THEN <<k>> ELSE <<>>) \o HetSites(gv, k + 1)

\* np.diff
Diff(s) == [k \in 1..(Len(s) - 1) |-> s[k + 1] - s[k]]

\* timeadapt.roh
roh(gv, pos) ==
  LET het_sites == HetSites(gv, 1)
      roh_limits == [k \in 1..Len(het_sites) |-> pos[het_sites[k]]]
  IN  Diff(roh_limits)

RECURSIVE Pow10(_)
Pow10(k) == IF k = 0 THEN 1 ELSE 10 * Pow10(k - 1)

RECURSIVE FloorLog10(_)
FloorLog10(n) == IF n < 10 THEN 0 ELSE 1 + FloorLog10(n \div 10)

\* int(round(np.log10(chr_end))), chr_end >= 1: log10 rounds up from
\* k + 1/2 on, that is when chr_end^2 >= 10^(2k+1)
RoundLog10(chr_end) ==
  LET k == FloorLog10(chr_end)
  IN  IF chr_end * chr_end < 10 * Pow10(2 * k) THEN k ELSE k + 1

\* the length of np.full(int(round(np.log10(chr_end)))+1, 0)
NumBuckets_Floor(chr_end) == FloorLog10(chr_end) + 1
NumBuckets(chr_end) == RoundLog10(chr_end) + 1

\* sum(roh_lenghts >= x)
AtLeast(roh_lenghts, x) == Cardinality({k \in 1..Len(roh_lenghts) : roh_lenghts[k] >= x})

\* line 501: what one sample adds to bucket roh_size
BucketCount_Swapped(roh_lenghts, roh_size) ==
  AtLeast(roh_lenghts, Pow10(roh_size + 1)) - AtLeast(roh_lenghts, Pow10(roh_size))
BucketCount(roh_lenghts, roh_size) ==
  AtLeast(roh_lenghts, Pow10(roh_size)) - AtLeast(roh_lenghts, Pow10(roh_size + 1))

\* gv = ga[:,ind]
GenotypeVector(ga, ind) == [l \in 1..Len(ga) |-> ga[l][ind + 1]]

\* lines 495-496: the check of the positions; when it fails the function
\* falls off its end and returns None
roh_entry(st, a) ==
  IF PositionsCheck(a.kind, a.pos)
  THEN [st EXCEPT !.pc = "samples", !.ind = 0,
                  !.roh_distribution = [k \in 1..NumBuckets(a.chr_end) |-> 0]]
  ELSE [st EXCEPT !.pc = "returned", !.none = TRUE]

\* lines 497-501: one sample
roh_sample(st, a) ==
  LET roh_lenghts == roh(GenotypeVector(a.ga, st.ind), a.pos)
  IN  [st EXCEPT !.ind = st.ind + 1,
                 !.roh_distribution =
                    [k \in 1..Len(st.roh_distribution) |->
                       st.roh_distribution[k] + BucketCount(roh_lenghts, k - 1)]]

\* lines 503-507: the check of the counts, and the return
roh_finish(st) ==
  IF \E k \in 1..Len(st.roh_distribution) : st.roh_distribution[k] < 0
  THEN [st EXCEPT !.pc = "raised"]
  ELSE [st EXCEPT !.pc = "returned", !.none = FALSE]

(***************************************************************************)
(* timeadapt.single_sample_sumstats, up to segsites (lines 389-396), with  *)
(* scikit-allel's count_alleles and sfs_folded.                            *)
(***************************************************************************)
SetMax(S) == CHOOSE x \in S : \A y \in S : y <= x

\* ga.max(): the largest allele of the matrix (of at least one call)
MaxAllele(ga) ==
  SetMax({ga[l][s][c] : l \in 1..Len(ga), s \in 1..Len(ga[1]), c \in 1..2})

\* the number of non-missing alleles equal to `allele` at one locus
AlleleCount(calls, allele) ==
  Cardinality({<<s, c>> \in (1..Len(calls)) \X (1..2) : calls[s][c] = allele})

\* ga.count_alleles(): a locus, a column for each allele 0 .. ga.max()
count_alleles(ga) ==
  [l \in 1..Len(ga) |-> [a \in 1..(MaxAllele(ga) + 1) |-> AlleleCount(ga[l], a - 1)]]

\* np.bincount(mac, minlength=x)
BinCount(mac, x) ==
  LET top == SetMax({x - 1} \cup {mac[l] : l \in 1..Len(mac)})
  IN  [j \in 1..(top + 1) |-> Cardinality({l \in 1..Len(mac) : mac[l] = j - 1})]

\* allel.sfs_folded(ac), ac of two columns
sfs_folded(ac) ==
  LET mac == [l \in 1..Len(ac) |-> IF ac[l][1] <= ac[l][2] THEN ac[l][1] ELSE ac[l][2]]
      n == SetMax({ac[l][1] + ac[l][2] : l \in 1..Len(ac)})
  IN  BinCount(mac, n \div 2 + 1)

\* lines 390-396: segsites = sum(sfs)-sfs[0]; sfs_folded refuses allele
\* counts that do not have two columns
Segsites(ga) ==
  LET ac == count_alleles(ga)
  IN  IF Len(ac[1]) # 2 THEN [raised |-> TRUE, segsites |-> 0]
      ELSE LET sfs == sfs_folded(ac)
           IN  [raised |-> FALSE, segsites |-> SeqSum(sfs) - sfs[1]]

(***************************************************************************)
(* add.mutations.snp_calling.                                              *)
(***************************************************************************)
\* the branch taken when f_num_reads >= score_th: no default call
add_ScoreCall_HetOutsideBand(derived_reads, ancestral_reads, ratio_th) ==
  IF derived_reads = 0 THEN <<0, 0>>
  ELSE IF ancestral_reads = 0 THEN <<1, 1>>
  ELSE IF derived_reads * ratio_th >= ancestral_reads THEN <<0, 1>>
  ELSE <<0, 0>>
add_ScoreCall(derived_reads, ancestral_reads, ratio_th) ==
  IF derived_reads = 0 THEN <<0, 0>>
  ELSE IF ancestral_reads = 0 THEN <<1, 1>>
  ELSE IF /\ derived_reads * ratio_th >= ancestral_reads
          /\ derived_reads <= ratio_th * ancestral_reads
       THEN <<0, 1>>
  ELSE IF derived_reads > ancestral_reads THEN <<1, 1>>
  ELSE <<0, 0>>

\* add.mutations.snp_calling
add_snp_calling(true_genotype, f_num_reads, error_rate, reads_th, score_th, ratio_th, dr, transversion) ==
  IF IsFalse(dr) /\ IsFalse(transversion)
  THEN {Outcome(FALSE, Missing, <<>>)}
  ELSE IF f_num_reads >= reads_th
  THEN UNION {
         IF f_num_reads >= score_th
         THEN {Outcome(FALSE,
                       add_ScoreCall(derived_reads, f_num_reads - derived_reads, ratio_th),
                       <<[dist |-> "binom", value |-> derived_reads]>>)}
         ELSE IF f_num_reads = 0
         THEN {Outcome(TRUE, Missing, <<[dist |-> "binom", value |-> derived_reads]>>)}
         ELSE {Outcome(FALSE, <<random_allele, random_allele>>,
                       <<[dist |-> "binom", value |-> derived_reads],
                         [dist |-> "bernoulli", value |-> random_allele]>>) :
                 random_allele \in BinomSupport(1, derived_reads, f_num_reads)} :
         derived_reads \in BinomSupport(f_num_reads, PDerived4(true_genotype, error_rate), 4)}
  ELSE {Outcome(FALSE, Missing, <<>>)}

(***************************************************************************)
(* State.                                                                  *)
(***************************************************************************)
VARIABLES
  \* a direct call of snp_calling: its arguments, its position, its outcome
  call_args, call_pc, call_out,
  \* sequencing: its arguments, the locals of a run, and the locals of a
  \* second run started from the same state of the random stream
  seq_args, seq, seq2,
  \* the genome maps: the table read, and the position and result of
  \* get_recombination_map, of get_genome_map and of make_rec_map on its result
  table, rec_pc, rec_out, gm_pc, gm_out, rm_pc, rm_out,
  \* the outcome of add.mutations.snp_calling on the arguments of the direct call
  add_out,
  \* distribution_roh: its arguments and its locals
  roh_args, droh,
  \* single_sample_sumstats: the genotype matrix, its position, segsites
  ss_ga, ss_pc, ss_out

vars == <<call_args, call_pc, call_out, seq_args, seq, seq2,
          table, rec_pc, rec_out, gm_pc, gm_out, rm_pc, rm_out,
          add_out, roh_args, droh, ss_ga, ss_pc, ss_out>>

call_vars == <<call_args, call_pc, call_out>>
seq_vars == <<seq_args, seq, seq2>>
map_vars == <<table, rec_pc, rec_out, gm_pc, gm_out, rm_pc, rm_out>>
stat_vars == <<add_out, roh_args, droh, ss_ga, ss_pc, ss_out>>

(***************************************************************************)
(* A direct call of snp_calling.                                           *)
(***************************************************************************)
CallArgs ==
  [true_genotype : TrueGenotypes, f_num_reads : 0..MaxReads,
   error_rate : ErrorRates, reads_th : 0..MaxTh, score_th : 0..MaxTh,
   ratio_th : 1..MaxRatio, dr : Flags, transversion : {"PyTrue", "PyFalse"}]

NoOutcome == Outcome(FALSE, Missing, <<>>)

NoArgs == [num_sites |-> 0, ssize |-> 0, ttr |-> 0, seq_error |-> 0,
           dr |-> <<>>, cov |-> <<>>]

CallIdle ==
  /\ call_args = [true_genotype |-> <<0, 0>>, f_num_reads |-> 0, error_rate |-> 0,
                  reads_th |-> 0, score_th |-> 0, ratio_th |-> 1,
                  dr |-> "PyTrue", transversion |-> "PyTrue"]
  /\ call_pc = "idle"
  /\ call_out = NoOutcome

MapIdle ==
  /\ table = <<>>
  /\ rec_pc = "idle" /\ gm_pc = "idle" /\ rm_pc = "idle"
  /\ rec_out = MapError /\ gm_out = MapError /\ rm_out = MapError

SeqIdle ==
  /\ seq_args = NoArgs
  /\ seq = [SeqStart EXCEPT !.pc = "idle"]
  /\ seq2 = [SeqStart EXCEPT !.pc = "idle"]

NoRohArgs == [ga |-> <<>>, n_samples |-> 0, pos |-> <<>>, kind |-> "list", chr_end |-> 1]

RohStart == [pc |-> "entry", ind |-> 0, roh_distribution |-> <<>>, none |-> TRUE]

StatIdle ==
  /\ add_out = NoOutcome
  /\ roh_args = NoRohArgs
  /\ droh = [RohStart EXCEPT !.pc = "idle"]
  /\ ss_ga = <<>>
  /\ ss_pc = "idle"
  /\ ss_out = 0

CallInit ==
  /\ call_args \in CallArgs
  /\ call_pc = "ready"
  /\ call_out = NoOutcome
  /\ SeqIdle
  /\ MapIdle
  /\ StatIdle

CallSnpCalling ==
  /\ call_pc = "ready"
  /\ \E o \in snp_calling(call_args.true_genotype, call_args.f_num_reads,
                          call_args.error_rate, call_args.reads_th,
                          call_args.score_th, call_args.ratio_th,
                          call_args.dr, call_args.transversion) :
       /\ call_out' = o
       /\ call_pc' = IF o.raised THEN "raised" ELSE "returned"
  /\ UNCHANGED <<call_args, seq_vars, map_vars, stat_vars>>

CallNext == CallSnpCalling

SpecCall == CallInit /\ [][CallNext]_vars

(***************************************************************************)
(* sequencing: one run.                                                    *)
(***************************************************************************)
\* the numbers of samples
SampleSizes == {1, 2}

\* a damageRepair column: a Python list of bools, or the numpy booleans of
\* the column read_sample_info returns
DrColumns(n) ==
  {[s \in 1..n |-> IF b[s] THEN kind[1] ELSE kind[2]] :
     kind \in {<<"PyTrue", "PyFalse">>, <<"NpTrue", "NpFalse">>}, b \in [1..n -> BOOLEAN]}

SeqArgs ==
  UNION {[num_sites : 0..(MaxCells \div n), ssize : {n}, ttr : {0, 2},
          seq_error : ErrorRates, dr : DrColumns(n),
          cov : UNION {[1..m -> CovValues] : m \in SampleSizes}] :
         n \in SampleSizes}

Init ==
  /\ seq_args \in SeqArgs
  /\ seq = SeqStart
  /\ seq2 = [SeqStart EXCEPT !.pc = "idle"]
  /\ CallIdle
  /\ MapIdle
  /\ StatIdle

Entry ==
  /\ seq.pc = "entry"
  /\ seq' = seq_entry(seq, seq_args)
  /\ UNCHANGED <<seq_args, seq2, call_vars, map_vars, stat_vars>>

NextVariant ==
  /\ seq.pc = "variants"
  /\ seq.locus < seq_args.num_sites
  /\ \E variant \in Variants(LastH(seq.ts), seq_args.num_sites - seq.locus - 1),
        depths \in DepthVectors(seq_args.cov, seq_args.ssize),
        is_transition \in TransitionDraws(seq_args.ttr) :
       seq' = seq_variant(seq, seq_args, variant, depths, is_transition)
  /\ UNCHANGED <<seq_args, seq2, call_vars, map_vars, stat_vars>>

Sample ==
  /\ seq.pc = "samples"
  /\ seq.i < seq_args.ssize
  /\ \E true_genotype \in TrueGenotypes :
       \E o \in SampleOutcomes(seq, seq_args, true_genotype) :
         seq' = seq_sample(seq, seq_args, o)
  /\ UNCHANGED <<seq_args, seq2, call_vars, map_vars, stat_vars>>

EndVariant ==
  /\ seq.pc = "samples"
  /\ seq.i = seq_args.ssize
  /\ seq' = seq_end_variant(seq)
  /\ UNCHANGED <<seq_args, seq2, call_vars, map_vars, stat_vars>>

Return ==
  /\ seq.pc = "variants"
  /\ seq.locus = seq_args.num_sites
  /\ seq' = seq_return(seq)
  /\ UNCHANGED <<seq_args, seq2, call_vars, map_vars, stat_vars>>

Next == Entry \/ NextVariant \/ Sample \/ EndVariant \/ Return

Spec == Init /\ [][Next]_vars

(***************************************************************************)
(* sequencing: two runs on the same arguments, each started from the same  *)
(* state of the random stream (np.random.seed(s) before each), stepped     *)
(* together.                                                               *)
(***************************************************************************)
\* np.random.poisson, np.random.random and st.binom.rvs all draw from numpy's
\* global stream: two runs at the same position of the stream of one seed
\* draw the same values: what the second run can draw out of `support` when
\* the first drew d1
SameStream_Unseeded(st1, st2, d1, support) == support
SameStream(st1, st2, d1, support) ==
  IF st1.cursor = st2.cursor THEN {d1} \cap support ELSE support

SeedInit ==
  /\ seq_args \in SeqArgs
  /\ seq = SeqStart
  /\ seq2 = SeqStart
  /\ CallIdle
  /\ MapIdle
  /\ StatIdle

SeedEntry ==
  /\ seq.pc = "entry" /\ seq2.pc = "entry"
  /\ seq' = seq_entry(seq, seq_args)
  /\ seq2' = seq_entry(seq2, seq_args)
  /\ UNCHANGED <<seq_args, call_vars, map_vars, stat_vars>>

SeedNextVariant ==
  /\ seq.pc = "variants" /\ seq2.pc = "variants"
  /\ seq.locus < seq_args.num_sites /\ seq2.locus = seq.locus
  /\ \E variant \in Variants(LastH(seq.ts), seq_args.num_sites - seq.locus - 1),
        depths \in DepthVectors(seq_args.cov, seq_args.ssize),
        is_transition \in TransitionDraws(seq_args.ttr) :
       \E d2 \in SameStream(seq, seq2, <<depths, is_transition>>,
                            DepthVectors(seq_args.cov, seq_args.ssize)
                              \X TransitionDraws(seq_args.ttr)) :
         /\ seq' = seq_variant(seq, seq_args, variant, depths, is_transition)
         /\ seq2' = seq_variant(seq2, seq_args, variant, d2[1], d2[2])
  /\ UNCHANGED <<seq_args, call_vars, map_vars, stat_vars>>

SeedSample ==
  /\ seq.pc = "samples" /\ seq2.pc = "samples"
  /\ seq.i < seq_args.ssize /\ seq2.i = seq.i /\ seq2.locus = seq.locus
  /\ \E true_genotype \in TrueGenotypes :
       LET outcomes2 == SampleOutcomes(seq2, seq_args, true_genotype)
       IN  \E o \in SampleOutcomes(seq, seq_args, true_genotype) :
             \E o2 \in SameStream(seq, seq2, o, outcomes2) :
               /\ seq' = seq_sample(seq, seq_args, o)
               /\ seq2' = seq_sample(seq2, seq_args, o2)
  /\ UNCHANGED <<seq_args, call_vars, map_vars, stat_vars>>

SeedEndVariant ==
  /\ seq.pc = "samples" /\ seq2.pc = "samples"
  /\ seq.i = seq_args.ssize /\ seq2.i = seq.i
  /\ seq' = seq_end_variant(seq)
  /\ seq2' = seq_end_variant(seq2)
  /\ UNCHANGED <<seq_args, call_vars, map_vars, stat_vars>>

SeedReturn ==
  /\ seq.pc = "variants" /\ seq2.pc = "variants"
  /\ seq.locus = seq_args.num_sites /\ seq2.locus = seq.locus
  /\ seq' = seq_return(seq)
  /\ seq2' = seq_return(seq2)
  /\ UNCHANGED <<seq_args, call_vars, map_vars, stat_vars>>

SeedNext == SeedEntry \/ SeedNextVariant \/ SeedSample \/ SeedEndVariant \/ SeedReturn

SpecSeed == SeedInit /\ [][SeedNext]_vars

(***************************************************************************)
(* The genome maps: a table is read by get_recombination_map, and by       *)
(* get_genome_map, whose result make_rec_map turns into a map.             *)
(***************************************************************************)
Tables ==
  UNION {[1..n -> [Chromosome : 1..MaxChr, Position : 1..MaxPos]] : n \in 1..MaxRows}

MapInit ==
  /\ \E t \in Tables :
       table = [k \in 1..Len(t) |->
                  [Chromosome |-> t[k].Chromosome, Position |-> t[k].Position,
                   rate |-> <<"rate", k>>]]
  /\ rec_pc = "ready" /\ gm_pc = "ready" /\ rm_pc = "ready"
  /\ rec_out = MapError /\ gm_out = MapError /\ rm_out = MapError
  /\ CallIdle
  /\ SeqIdle
  /\ StatIdle

GetRecombinationMap ==
  /\ rec_pc = "ready"
  /\ rec_out' = get_recombination_map(table)
  /\ rec_pc' = IF rec_out'.raised THEN "raised" ELSE "returned"
  /\ UNCHANGED <<table, gm_pc, gm_out, rm_pc, rm_out, call_vars, seq_vars, stat_vars>>

GetGenomeMap ==
  /\ rec_pc # "ready"
  /\ gm_pc = "ready"
  /\ gm_out' = get_genome_map(table)
  /\ gm_pc' = IF gm_out'.raised THEN "raised" ELSE "returned"
  /\ UNCHANGED <<table, rec_pc, rec_out, rm_pc, rm_out, call_vars, seq_vars, stat_vars>>

MakeRecMap ==
  /\ gm_pc = "returned"
  /\ rm_pc = "ready"
  /\ rm_out' = make_rec_map(gm_out.nchr, gm_out.rates, gm_out.positions)
  /\ rm_pc' = IF rm_out'.raised THEN "raised" ELSE "returned"
  /\ UNCHANGED <<table, rec_pc, rec_out, gm_pc, gm_out, call_vars, seq_vars, stat_vars>>

MapNext == GetRecombinationMap \/ GetGenomeMap \/ MakeRecMap

SpecMap == MapInit /\ [][MapNext]_vars

(***************************************************************************)
(* The two snp_calling on the same arguments and the same draws.           *)
(***************************************************************************)
\* the outcomes among `outcomes` that read the same values from the stream
\* as outcome o did, as far as both read it
SameDraws(o, outcomes) ==
  {o2 \in outcomes :
     \A k \in 1..Len(o.draws) : k <= Len(o2.draws) => o2.draws[k] = o.draws[k]}

EquivInit ==
  /\ call_args \in CallArgs
  /\ call_pc = "ready"
  /\ call_out = NoOutcome
  /\ SeqIdle
  /\ MapIdle
  /\ StatIdle

CallBoth ==
  /\ call_pc = "ready"
  /\ \E o \in snp_calling(call_args.true_genotype, call_args.f_num_reads,
                          call_args.error_rate, call_args.reads_th,
                          call_args.score_th, call_args.ratio_th,
                          call_args.dr, call_args.transversion) :
       \E o2 \in SameDraws(o, add_snp_calling(call_args.true_genotype,
                          call_args.f_num_reads, call_args.error_rate,
                          call_args.reads_th, call_args.score_th,
                          call_args.ratio_th, call_args.dr,
                          call_args.transversion)) :
         /\ call_out' = o
         /\ add_out' = o2
         /\ call_pc' = IF o.raised THEN "raised" ELSE "returned"
  /\ UNCHANGED <<call_args, seq_vars, map_vars, roh_args, droh, ss_ga, ss_pc, ss_out>>

EquivNext == CallBoth

SpecEquiv == EquivInit /\ [][EquivNext]_vars

(***************************************************************************)
(* distribution_roh.                                                       *)
(***************************************************************************)
RohSampleSizes == {1, 2}

\* the calls of the matrices: homozygous, heterozygous, and one derived
\* allele beside a missing one
RohCalls == {<<0, 0>>, <<0, 1>>, <<1, -1>>}

\* positions a decade apart
RohPositionValues == {1, 2, MaxRohPos - 1, MaxRohPos}

RohInputs(n_loci, n, chr_ends) ==
  [ga : [1..n_loci -> [1..n -> RohCalls]], n_samples : {n},
   pos : [1..n_loci -> RohPositionValues], kind : PosKinds, chr_end : chr_ends]

\* matrices of two loci and more with a chromosome shorter than the
\* positions and one that holds them; every chromosome end with the
\* matrices of at most one locus
RohArgs ==
  UNION ({RohInputs(l, n, {3, MaxRohPos}) :
            <<l, n>> \in {x \in (2..MaxLoci) \X RohSampleSizes : x[1] + x[2] <= MaxLoci + 1}}
         \cup {RohInputs(l, n, 1..MaxChrEnd) : l \in 0..1, n \in RohSampleSizes})

RohInit ==
  /\ roh_args \in RohArgs
  /\ droh = RohStart
  /\ add_out = NoOutcome
  /\ ss_ga = <<>> /\ ss_pc = "idle" /\ ss_out = 0
  /\ CallIdle
  /\ SeqIdle
  /\ MapIdle

RohEntry ==
  /\ droh.pc = "entry"
  /\ droh' = roh_entry(droh, roh_args)
  /\ UNCHANGED <<roh_args, add_out, ss_ga, ss_pc, ss_out, call_vars, seq_vars, map_vars>>

RohSample ==
  /\ droh.pc = "samples"
  /\ droh.ind < roh_args.n_samples
  /\ droh' = roh_sample(droh, roh_args)
  /\ UNCHANGED <<roh_args, add_out, ss_ga, ss_pc, ss_out, call_vars, seq_vars, map_vars>>

RohFinish ==
  /\ droh.pc = "samples"
  /\ droh.ind = roh_args.n_samples
  /\ droh' = roh_finish(droh)
  /\ UNCHANGED <<roh_args, add_out, ss_ga, ss_pc, ss_out, call_vars, seq_vars, map_vars>>

RohNext == RohEntry \/ RohSample \/ RohFinish

SpecRoh == RohInit /\ [][RohNext]_vars

(***************************************************************************)
(* single_sample_sumstats, up to segsites.                                 *)
(***************************************************************************)
\* the calls of the matrices: a call and its mirror count the same
SumCalls == {<<0, 0>>, <<0, 1>>, <<1, 1>>, <<-1, -1>>, <<0, -1>>, <<1, -1>>}

SumMatrices ==
  UNION {[1..x[1] -> [1..x[2] -> SumCalls]] :
           x \in {y \in (1..MaxLoci) \X RohSampleSizes : y[1] + y[2] <= MaxLoci + 1}}

SumInit ==
  /\ ss_ga \in SumMatrices
  /\ ss_pc = "ready"
  /\ ss_out = 0
  /\ add_out = NoOutcome
  /\ roh_args = NoRohArgs
  /\ droh = [RohStart EXCEPT !.pc = "idle"]
  /\ CallIdle
  /\ SeqIdle
  /\ MapIdle

CountSegsites ==
  /\ ss_pc = "ready"
  /\ LET r == Segsites(ss_ga)
     IN  /\ ss_pc' = IF r.raised THEN "raised" ELSE "segsites"
         /\ ss_out' = r.segsites
  /\ UNCHANGED <<ss_ga, add_out, roh_args, droh, call_vars, seq_vars, map_vars>>

SumNext == CountSegsites

SpecSum == SumInit /\ [][SumNext]_vars

(***************************************************************************)
(* Properties of snp_calling (SpecCall).                                   *)
(***************************************************************************)
\* the case of the damage rule: the sample is not damage-repaired and the
\* site is a transition
DamageCase(dr, transversion) == ~Truth(dr) /\ ~Truth(transversion)

CallDone == call_pc \in {"returned", "raised"}

\* the read counts a finished call drew
DerivedReads == call_out.draws[1].value
AncestralReads == call_args.f_num_reads - DerivedReads

\* C2: with depth >= reads_th and depth >= score_th and no damage case, the
\* call returns, it drew the read counts once, and the result is (0,0) when
\* derived_reads = 0, (1,1) when ancestral_reads = 0, and otherwise (0,1)
\* when 1/ratio_th <= derived_reads/ancestral_reads <= ratio_th (bounds
\* included), else (1,1) when derived_reads > ancestral_reads, else (0,0).
C2_ScoreBranchByReadCounts ==
  (/\ CallDone
   /\ ~DamageCase(call_args.dr, call_args.transversion)
   /\ call_args.f_num_reads >= call_args.reads_th
   /\ call_args.f_num_reads >= call_args.score_th)
  => /\ call_pc = "returned"
     /\ Len(call_out.draws) = 1
     /\ DerivedReads \in 0..call_args.f_num_reads
     /\ call_out.call =
          IF DerivedReads = 0 THEN <<0, 0>>
          ELSE IF AncestralReads = 0 THEN <<1, 1>>
          ELSE IF /\ AncestralReads <= DerivedReads * call_args.ratio_th
                  /\ DerivedReads <= AncestralReads * call_args.ratio_th
               THEN <<0, 1>>
          ELSE IF DerivedReads > AncestralReads THEN <<1, 1>>
          ELSE <<0, 0>>

\* a heterozygous call at the lower end of the band, ratio = 1/ratio_th < 1
C2_Witness ==
  /\ call_pc = "returned"
  /\ call_args.f_num_reads >= call_args.reads_th
  /\ call_args.f_num_reads >= call_args.score_th
  /\ Len(call_out.draws) = 1
  /\ DerivedReads >= 1
  /\ call_args.ratio_th > 1
  /\ DerivedReads * call_args.ratio_th = AncestralReads
  /\ call_out.call = <<0, 1>>

\* C3: a returned call is (-1,-1) exactly in the damage case or when depth <
\* reads_th, and in every other case both alleles are in {0, 1}.
C3_MissingExactlyWhen ==
  call_pc = "returned"
  => /\ call_out.call = Missing
          <=> \/ DamageCase(call_args.dr, call_args.transversion)
              \/ call_args.f_num_reads < call_args.reads_th
     /\ call_out.call # Missing
          => call_out.call[1] \in {0, 1} /\ call_out.call[2] \in {0, 1}

\* C4: with reads_th <= depth < score_th and no damage case, for every
\* depth >= 0, the call returns (0,0) or (1,1).
C4_LowCoverageCompletes ==
  (/\ CallDone
   /\ ~DamageCase(call_args.dr, call_args.transversion)
   /\ call_args.reads_th <= call_args.f_num_reads
   /\ call_args.f_num_reads < call_args.score_th)
  => /\ call_pc = "returned"
     /\ call_out.call \in {<<0, 0>>, <<1, 1>>}

(***************************************************************************)
(* Properties of sequencing (Spec, SpecSeed).                              *)
(***************************************************************************)
\* C1: at a biallelic site labelled a transition, the call stored for every
\* sample whose damage-repair flag is false (a Python False or a numpy
\* False) is (-1,-1).
C1_TransitionWithoutRepairIsMissing ==
  (/\ seq.pc = "samples"
   /\ seq.variant.alleles = 2
   /\ ~Truth(seq.transversion_snp))
  => \A s \in 1..seq.i :
       ~Truth(seq_args.dr[s]) => seq.geno_data[seq.locus + 1][s] = Missing

\* C5: the matrix has one row a site and one call a sample; the positions
\* are those of the variants read so far, in their order; every call of a
\* site with more than two alleles is (-1,-1) and its position is kept; at
\* the return there is one position a site.
C5_RowAndPositionPerSite ==
  seq.allocated
  => /\ Len(seq.geno_data) = seq_args.num_sites
     /\ \A l \in 1..Len(seq.geno_data) : Len(seq.geno_data[l]) = seq_args.ssize
     /\ Len(seq.positions) = Len(seq.ts)
     /\ \A k \in 1..Len(seq.ts) :
          /\ seq.positions[k] = Round(seq.ts[k].position)
          /\ seq.ts[k].alleles > 2
               => \A s \in 1..seq_args.ssize : seq.geno_data[k][s] = Missing
     /\ seq.pc = "returned" => Len(seq.positions) = seq_args.num_sites

\* a run of two sites returned: the first with three alleles, the second called
C5_Witness ==
  /\ seq.pc = "returned"
  /\ seq_args.num_sites = 2
  /\ seq.ts[1].alleles = 3
  /\ seq.ts[2].alleles = 2
  /\ seq.geno_data[2][1] = <<0, 1>>
  /\ Len(seq.positions) = 2

\* the order of the stream: by site, within a site the depths, then the
\* label, then the reads of the samples in their order, and for one sample
\* the read counts before the low-coverage trial
DistRank(dist) == IF dist = "bernoulli" THEN 1 ELSE 0

DrawBefore(x, y) ==
  \/ x.site < y.site
  \/ x.site = y.site /\ x.phase < y.phase
  \/ x.site = y.site /\ x.phase = y.phase /\ x.sample < y.sample
  \/ /\ x.site = y.site /\ x.phase = y.phase /\ x.sample = y.sample
     /\ DistRank(x.dist) < DistRank(y.dist)

DrawsInOrder(st) ==
  LET all == <<st.before>> \o st.draws
  IN  \A k \in 1..(Len(all) - 1) : DrawBefore(all[k], all[k + 1])

C7_CoverageLengthChecked ==
  /\ (Len(seq_args.cov) # seq_args.ssize /\ seq.pc # "entry")
       => /\ seq.pc = "raised"
          /\ ~seq.allocated
          /\ seq.geno_data = <<>>
          /\ seq.positions = <<>>
          /\ seq.ts = <<>>
          /\ seq.cursor = 0
  /\ Len(seq_args.cov) = seq_args.ssize => seq.pc # "raised"

\* the run raised on a coverage vector of the wrong length
C7_Witness ==
  /\ seq.pc = "raised"
  /\ Len(seq_args.cov) = 2
  /\ seq_args.ssize = 1
  /\ seq_args.num_sites = 2

(***************************************************************************)
(* Properties of the genome maps (SpecMap).                                *)
(***************************************************************************)
\* C8: for nchr >= 1 chromosomes with ends e and rates r, make_rec_map
\* returns the positions [0, e_1, e_1+1, ..., e_n] and the rates
\* [r_1, ln2, ..., r_n]: 2*nchr - 1 rates, one more position, ln2 between
\* every two adjacent chromosomes and nowhere else, and for nchr = 1 the
\* positions [0, e_1] and the rates [r_1].
C8_MakeRecMapLayout ==
  (/\ rm_pc # "ready"
   /\ gm_out.nchr >= 1
   /\ Len(gm_out.positions) = gm_out.nchr
   /\ Len(gm_out.rates) = gm_out.nchr)
  => LET n == gm_out.nchr
         e == gm_out.positions
         r == gm_out.rates
         P == rm_out.positions
         R == rm_out.rates
     IN  /\ rm_pc = "returned"
         /\ Len(R) = 2 * n - 1
         /\ Len(P) = Len(R) + 1
         /\ P[1] = 0
         /\ \A i \in 1..n : P[2 * i] = e[i] /\ R[2 * i - 1] = r[i]
         /\ \A i \in 1..(n - 1) : P[2 * i + 1] = e[i] + 1 /\ R[2 * i] = Ln2
         /\ Cardinality({k \in 1..Len(R) : R[k] = Ln2}) = n - 1
         /\ n = 1 => P = <<0, e[1]>> /\ R = <<r[1]>>

\* the map of three chromosomes
C8_Witness ==
  /\ rm_pc = "returned"
  /\ Column(table, "Chromosome") = <<1, 2, 3>>
  /\ gm_out.positions = <<2, 3, 5>>
  /\ rm_out.positions = <<0, 2, 3, 3, 4, 5>>
  /\ rm_out.rates = <<<<"rate", 1>>, Ln2, <<"rate", 2>>, Ln2, <<"rate", 3>>>>

\* a table whose chromosome indices are contiguous and ascending from 1
WellFormed(t) ==
  /\ t[1].Chromosome = 1
  /\ \A k \in 1..(Len(t) - 1) : t[k + 1].Chromosome - t[k].Chromosome \in {0, 1}

NumChromosomes(t) == Cardinality({t[k].Chromosome : k \in 1..Len(t)})

\* the end of chromosome c: the Position of its last row
ChrEnd(t, c) ==
  LET last == CHOOSE k \in 1..Len(t) :
                /\ t[k].Chromosome = c
                /\ \A j \in (k + 1)..Len(t) : t[j].Chromosome # c
  IN  t[last].Position

\* the sum of the ends of the chromosomes before c
RECURSIVE EndsBefore(_, _)
EndsBefore(t, c) == IF c <= 1 THEN 0 ELSE ChrEnd(t, c - 1) + EndsBefore(t, c - 1)

IsBoundary(t, k) == k < Len(t) /\ t[k + 1].Chromosome # t[k].Chromosome

\* the map of the rows from k on: every Position shifted, and an extra
\* point end+1 with rate ln2 after the last row of each chromosome but the last
RECURSIVE ShiftedPositions(_, _)
ShiftedPositions(t, k) ==
  IF k > Len(t) THEN <<>>
  ELSE LET at == t[k].Position + EndsBefore(t, t[k].Chromosome)
       IN  <<at>> \o (IF IsBoundary(t, k) THEN <<at + 1>> ELSE <<>>)
                 \o ShiftedPositions(t, k + 1)

RECURSIVE RatesWithBreaks(_, _)
RatesWithBreaks(t, k) ==
  IF k > Len(t) THEN <<>>
  ELSE <<t[k].rate>> \o (IF IsBoundary(t, k) THEN <<Ln2>> ELSE <<>>)
                    \o RatesWithBreaks(t, k + 1)

\* C9: on a table with contiguous ascending chromosome indices,
\* get_recombination_map returns the number of chromosomes, the positions
\* [0] followed by every Position shifted by the ends of the preceding
\* chromosomes with end+1 after the end of each chromosome but the last,
\* and the table rates with ln2 at those nchr-1 places; there is one more
\* position than rates.
C9_RecombinationMapLayout ==
  (rec_pc # "ready" /\ WellFormed(table))
  => /\ rec_pc = "returned"
     /\ rec_out.nchr = NumChromosomes(table)
     /\ rec_out.positions = <<0>> \o ShiftedPositions(table, 1)
     /\ rec_out.rates = RatesWithBreaks(table, 1)
     /\ Cardinality({k \in 1..Len(rec_out.rates) : rec_out.rates[k] = Ln2})
          = rec_out.nchr - 1
     /\ Len(rec_out.positions) = Len(rec_out.rates) + 1

\* three chromosomes, the first of two rows
C9_Witness ==
  /\ rec_pc = "returned"
  /\ Column(table, "Chromosome") = <<1, 1, 2, 3>>
  /\ Column(table, "Position") = <<1, 2, 2, 1>>
  /\ rec_out.nchr = 3
  /\ rec_out.positions = <<0, 1, 2, 3, 4, 5, 5>>

\* C10: on a table whose chromosome indices are not contiguous and
\* ascending from 1, get_recombination_map and get_genome_map raise and
\* return no map.
C10_MalformedTableRaises ==
  ~WellFormed(table)
  => /\ rec_pc # "ready" => rec_pc = "raised"
     /\ gm_pc # "ready" => gm_pc = "raised"

(***************************************************************************)
(* Properties of distribution_roh (SpecRoh).                               *)
(***************************************************************************)
StrictlyIncreasing(s) == \A k \in 1..(Len(s) - 1) : s[k] < s[k + 1]

RohDone == droh.pc \in {"returned", "raised"}

\* the function returned a histogram (not None)
RohHistogram == droh.pc = "returned" /\ ~droh.none

\* C11: when the positions are not strictly increasing, whatever the
\* container they come in, distribution_roh raises: it does not go on to
\* count and it does not return, neither a histogram nor None.
C11_UnsortedPositionsRaise ==
  (droh.pc # "entry" /\ ~StrictlyIncreasing(roh_args.pos))
  => droh.pc = "raised"

\* C12: when the positions are strictly increasing (also none or one
\* position), whatever the container, distribution_roh passes its check,
\* does not raise, and what it returns is a histogram.
C12_SortedPositionsReturnHistogram ==
  (droh.pc # "entry" /\ StrictlyIncreasing(roh_args.pos))
  => /\ droh.pc # "raised"
     /\ droh.pc = "returned" => ~droh.none

\* C13: a returned histogram has floor(log10(chr_end)) + 1 buckets: its
\* top index K satisfies 10^K <= chr_end < 10^(K+1).
C13_BucketsFloorLog10 ==
  RohHistogram
  => LET K == Len(droh.roh_distribution) - 1
     IN  K >= 0 /\ Pow10(K) <= roh_args.chr_end /\ roh_args.chr_end < Pow10(K + 1)

\* C13 as amended: a returned histogram has round(log10(chr_end)) + 1
\* buckets: its top index K is the integer nearest to log10(chr_end),
\* 10^(2K-1) <= chr_end^2 < 10^(2K+1).
C13_BucketsRoundLog10 ==
  RohHistogram
  => LET K == Len(droh.roh_distribution) - 1
         c2 == roh_args.chr_end * roh_args.chr_end
     IN  K >= 0 /\ Pow10(2 * K) <= 10 * c2 /\ c2 < 10 * Pow10(2 * K)

\* a chromosome of length 40: three buckets, where floor gives two
C13_Witness ==
  /\ RohHistogram
  /\ roh_args.chr_end = 40
  /\ Len(droh.roh_distribution) = 3

\* a heterozygous call: one derived allele and no missing allele
Het(call) == call \in {<<0, 1>>, <<1, 0>>}

\* the gaps: <<s, i, j>> for two consecutive heterozygous sites i < j of sample s
GapPairs ==
  {x \in (1..roh_args.n_samples) \X (1..Len(roh_args.ga)) \X (1..Len(roh_args.ga)) :
     /\ x[2] < x[3]
     /\ Het(roh_args.ga[x[2]][x[1]])
     /\ Het(roh_args.ga[x[3]][x[1]])
     /\ \A m \in (x[2] + 1)..(x[3] - 1) : ~Het(roh_args.ga[m][x[1]])}

GapLength(x) == roh_args.pos[x[3]] - roh_args.pos[x[2]]

\* C14: with strictly increasing positions distribution_roh returns a
\* histogram in which every bucket k below the top is the number of gaps g
\* of all the samples with 10^k <= g < 10^(k+1), and the top bucket K is the
\* number of gaps g >= 10^K; the counts are of the set of gaps of all
\* samples, so they do not depend on the order of the samples.
C14_HistogramCountsGaps ==
  (RohDone /\ StrictlyIncreasing(roh_args.pos))
  => /\ RohHistogram
     /\ \A k \in 1..Len(droh.roh_distribution) :
          droh.roh_distribution[k] =
            Cardinality({x \in GapPairs :
                           /\ GapLength(x) >= Pow10(k - 1)
                           /\ k < Len(droh.roh_distribution) => GapLength(x) < Pow10(k)})

\* C15: no bucket is negative while the samples are counted nor in a
\* returned histogram; distribution_roh fails at its last check only on a
\* negative bucket, which it then never returns, and so it never fails there.
C15_BucketsNonNegative ==
  /\ droh.pc \in {"samples", "returned"}
       => \A k \in 1..Len(droh.roh_distribution) : droh.roh_distribution[k] >= 0
  /\ droh.pc = "raised"
       => \E k \in 1..Len(droh.roh_distribution) : droh.roh_distribution[k] < 0
  /\ droh.pc # "raised"

\* a histogram returned for a list of positions that goes down (a gap of
\* 11, then a gap below zero): the gap below zero is in no bucket
C15_Witness ==
  /\ RohHistogram
  /\ roh_args.kind = "list"
  /\ roh_args.pos = <<1, MaxRohPos, 2>>
  /\ roh_args.chr_end = MaxRohPos
  /\ roh_args.n_samples = 1
  /\ \A l \in 1..3 : roh_args.ga[l][1] = <<0, 1>>
  /\ droh.roh_distribution = <<0, 1>>

(***************************************************************************)
(* Properties of single_sample_sumstats (SpecSum).                         *)
(***************************************************************************)
\* allele a occurs among the non-missing alleles of locus l
Occurs(l, a) == \E s \in 1..Len(ss_ga[l]) : \E c \in 1..2 : ss_ga[l][s][c] = a

\* C16: for every matrix over calls in {-1,0,1}, segsites is computed and is
\* the number of loci at which both allele 0 and allele 1 occur among the
\* non-missing alleles.
C16_SegsitesCountsBothAlleles ==
  ss_pc # "ready"
  => /\ ss_pc = "segsites"
     /\ ss_out = Cardinality({l \in 1..Len(ss_ga) : Occurs(l, 0) /\ Occurs(l, 1)})

(***************************************************************************)
(* Strictly increasing positions (SpecMap, Spec).                          *)
(***************************************************************************)
\* the Positions are positive and go strictly up within each chromosome
LocalPositionsIncrease(t) ==
  /\ \A k \in 1..Len(t) : t[k].Position >= 1
  /\ \A k \in 1..(Len(t) - 1) :
       t[k + 1].Chromosome = t[k].Chromosome => t[k].Position < t[k + 1].Position

\* C17: on a table with contiguous ascending chromosome indices whose
\* Positions are positive and strictly increasing within each chromosome,
\* the positions get_recombination_map returns are strictly increasing.
C17_MapPositionsStrictlyIncrease ==
  (rec_pc = "returned" /\ WellFormed(table) /\ LocalPositionsIncrease(table))
  => StrictlyIncreasing(rec_out.positions)

\* C18: the variants are read in strictly increasing position order and the
\* positions sequencing has collected are strictly increasing.
C18_RoundedPositionsStrictlyIncrease ==
  (\A k \in 1..(Len(seq.ts) - 1) : seq.ts[k].position < seq.ts[k + 1].position)
  => StrictlyIncreasing(seq.positions)

(***************************************************************************)
(* The two snp_calling (SpecEquiv).                                        *)
(***************************************************************************)
\* C19: on the same arguments and the same draws, timeadapt.snp_calling and
\* add.mutations.snp_calling take the same draws and end the same way, with
\* the same call.
C19_SameCallSameDraws ==
  call_pc # "ready"
  => /\ add_out.raised = call_out.raised
     /\ add_out.draws = call_out.draws
     /\ add_out.call = call_out.call

\* both return (0,0) from the last else of the score branch, below the
\* default [1,1] of timeadapt.py
C19_Witness ==
  /\ call_pc = "returned"
  /\ call_args.f_num_reads >= call_args.reads_th
  /\ call_args.f_num_reads >= call_args.score_th
  /\ Len(call_out.draws) = 1
  /\ call_out.draws[1].value >= 1
  /\ call_out.draws[1].value * call_args.ratio_th
       < call_args.f_num_reads - call_out.draws[1].value
  /\ call_out.call = <<0, 0>>
  /\ add_out.call = <<0, 0>>

====
